---- MODULE Spec2Model ----
(***************************************************************************)
(* Model of src_dump.py: the output path resolver, the mask matcher, the   *)
(* directory walker / filter, the header writer and the run controller.    *)
(*                                                                         *)
(* Strings are sequences of one-character strings, so that splitext,       *)
(* fnmatchcase, lower().endswith, join, relpath and basename are computed  *)
(* the way the library computes them.  The filesystem is a table of        *)
(* directory entries in creation order; os.walk enumerates a directory in  *)
(* table order.  The text of a file is a sequence of chunks; the output    *)
(* stream is a buffer (outbuf) in front of the file's chunks on disk.      *)
(***************************************************************************)
EXTENDS Integers, Sequences, FiniteSets, TLC

\* ------------------------------------------------------------------------
\* Bounds of the model
\* ------------------------------------------------------------------------
MaxArgs == 2

MaxFaults == 1

MaxSuffix == 3

\* ------------------------------------------------------------------------
\* Program constants (src_dump.py lines 6-13)
\* ------------------------------------------------------------------------
FILE_EXTENSIONS ==
    << <<".","c","s">>,
       <<".","c","s","p","r","o","j">>,
       <<".","v","u","e">>,
       <<".","j","s">>,
       <<".","j","s","o","n">>,
       <<".","i","s","s">>,
       <<".","i","n","i">>,
       <<".","p","s","1">>,
       <<".","p","s","m","1">>,
       <<".","p","s","d","1">> >>

IGNORED_DIR_MASKS ==
    << <<".","*">>,
       <<"b","i","n">>,
       <<"o","b","j">>,
       <<"d","i","s","t">>,
       <<"n","o","d","e","_","m","o","d","u","l","e","s">>,
       <<"d","i","s","t","-","s","e","r","v","e","r">>,
       <<"O","u","t","p","u","t">>,
       <<"T","w","o","M","a","c","h","i","n","e","s">> >>

IGNORED_FILE_MASKS ==
    << <<".","*">>,
       <<"*",".","t","m","p">>,
       <<"*",".","b","a","k">>,
       <<"*",".","s","w","p">>,
       <<"*",".","u","s","e","r">>,
       <<"*",".","s","u","o">> >>

\* ------------------------------------------------------------------------
\* String and path functions
\* ------------------------------------------------------------------------
UPPER ==
    <<"A","B","C","D","E","F","G","H","I","J","K","L","M",
      "N","O","P","Q","R","S","T","U","V","W","X","Y","Z">>

LOWER ==
    <<"a","b","c","d","e","f","g","h","i","j","k","l","m",
      "n","o","p","q","r","s","t","u","v","w","x","y","z">>

DIGITS == <<"0","1","2","3","4","5","6","7","8","9">>

\* str.lower() on one character
lowerChar(c) ==
    IF \E k \in DOMAIN UPPER : UPPER[k] = c
    THEN LOWER[CHOOSE k \in DOMAIN UPPER : UPPER[k] = c]
    ELSE c

\* filename.lower()
lower(s) == [k \in DOMAIN s |-> lowerChar(s[k])]

\* str.endswith(suf)
endswith(s, suf) ==
    /\ Len(suf) <= Len(s)
    /\ SubSeq(s, Len(s) - Len(suf) + 1, Len(s)) = suf

\* an extension test that forgets lower()
has_allowed_extension_cs(filename) ==
    \E k \in DOMAIN FILE_EXTENSIONS : endswith(filename, FILE_EXTENSIONS[k])

\* any(filename.lower().endswith(ext) for ext in FILE_EXTENSIONS)
has_allowed_extension(filename) ==
    \E k \in DOMAIN FILE_EXTENSIONS : endswith(lower(filename), FILE_EXTENSIONS[k])

\* fnmatch.fnmatchcase(name, pattern): case-sensitive glob with * and ?
\* (the masks of the program use no character classes)
RECURSIVE fnmatchcase(_, _)
fnmatchcase(name, pattern) ==
    IF pattern = <<>> THEN name = <<>>
    ELSE IF Head(pattern) = "*"
         THEN \/ fnmatchcase(name, Tail(pattern))
              \/ (name # <<>> /\ fnmatchcase(Tail(name), pattern))
    ELSE IF Head(pattern) = "?"
         THEN name # <<>> /\ fnmatchcase(Tail(name), Tail(pattern))
    ELSE /\ name # <<>>
         /\ Head(name) = Head(pattern)
         /\ fnmatchcase(Tail(name), Tail(pattern))

matches_any_mask(name, mask_list) ==
    \E k \in DOMAIN mask_list : fnmatchcase(name, mask_list[k])

\* str.rfind(c), 1-based, 0 when c does not occur
rfind(s, c) ==
    IF \E k \in DOMAIN s : s[k] = c
    THEN CHOOSE k \in DOMAIN s : s[k] = c /\ \A m \in DOMAIN s : s[m] = c => m <= k
    ELSE 0

\* os.path.splitext: the extension starts at the last dot of the last path
\* component, unless that component has only dots before it
splitext(p) ==
    LET sepIndex == rfind(p, "/")
        dotIndex == rfind(p, ".")
    IN  IF /\ dotIndex > sepIndex
           /\ \E k \in (sepIndex + 1)..(dotIndex - 1) : p[k] # "."
        THEN << SubSeq(p, 1, dotIndex - 1), SubSeq(p, dotIndex, Len(p)) >>
        ELSE << p, <<>> >>

\* os.path.dirname / os.path.basename
dirname(p) ==
    IF rfind(p, "/") = 0 THEN <<>> ELSE SubSeq(p, 1, rfind(p, "/") - 1)

basename(p) == SubSeq(p, rfind(p, "/") + 1, Len(p))

\* os.path.join(a, b) for a relative b
join(a, b) == IF a = <<>> THEN b ELSE a \o <<"/">> \o b

\* os.path.relpath(path, start) for a path below start
relpath(path, start) == SubSeq(path, Len(start) + 2, Len(path))

\* str(counter) in f"{base}_{counter}{ext}"
RECURSIVE str(_)
str(n) ==
    IF n < 10 THEN << DIGITS[n + 1] >>
    ELSE str(n \div 10) \o << DIGITS[(n % 10) + 1] >>

\* ------------------------------------------------------------------------
\* Filesystem: a table of directory entries, in creation order
\* ------------------------------------------------------------------------
\* os.path.exists(p)
exists(F, p) == \E k \in DOMAIN F : F[k].path = p

\* os.path.isdir(p)
isdir(F, p) == \E k \in DOMAIN F : F[k].path = p /\ F[k].kind = "dir"

entry(F, p) == F[CHOOSE k \in DOMAIN F : F[k].path = p]

NewFile(p, c) == [path |-> p, kind |-> "file", content |-> c, readable |-> TRUE]

NewDir(p) == [path |-> p, kind |-> "dir", content |-> <<>>, readable |-> TRUE]

\* open(p, 'w'): creates the file, or truncates it when it exists; where a
\* new entry comes in the enumeration of its directory is up to the
\* filesystem (first or last here)
open_w(F, p, first) ==
    IF exists(F, p)
    THEN [k \in DOMAIN F |-> IF F[k].path = p THEN [F[k] EXCEPT !.content = <<>>] ELSE F[k]]
    ELSE IF first THEN <<NewFile(p, <<>>)>> \o F
    ELSE Append(F, NewFile(p, <<>>))

\* the buffered chunks reach the file (flush, or the flush of close)
write_through(F, p, chunks) ==
    [k \in DOMAIN F |->
        IF F[k].path = p THEN [F[k] EXCEPT !.content = @ \o chunks] ELSE F[k]]

\* os.remove(p)
remove(F, p) == SelectSeq(F, LAMBDA e : e.path # p)

\* os.scandir(top) as os.walk uses it: the entries directly in top
scandir(F, top) == SelectSeq(F, LAMBDA e : dirname(e.path) = top)

names(es) == [k \in DOMAIN es |-> basename(es[k].path)]

\* the dirs and files lists os.walk yields for top
walk_dirs(F, top) == names(SelectSeq(scandir(F, top), LAMBDA e : e.kind = "dir"))

walk_files(F, top) == names(SelectSeq(scandir(F, top), LAMBDA e : e.kind # "dir"))

\* a walk that prunes nothing
prune_dirs_none(dirs) == dirs

\* dirs[:] = [d for d in dirs if not matches_any_mask(d, IGNORED_DIR_MASKS)]
prune_dirs(dirs) ==
    SelectSeq(dirs, LAMBDA d : ~matches_any_mask(d, IGNORED_DIR_MASKS))

\* the filter of lines 70-73
is_selected(filename) ==
    /\ ~matches_any_mask(filename, IGNORED_FILE_MASKS)
    /\ has_allowed_extension(filename)

\* ------------------------------------------------------------------------
\* Output path resolver
\* ------------------------------------------------------------------------
TXT == <<".","t","x","t">>

RECURSIVE probe(_, _, _, _)
probe(F, base, ext, counter) ==
    LET candidate == base \o <<"_">> \o str(counter) \o ext
    IN  IF ~exists(F, candidate) THEN candidate
        ELSE probe(F, base, ext, counter + 1)

\* a resolver whose counter starts at 0
get_unique_output_filename_from0(F, base_path) ==
    LET p == IF splitext(base_path)[2] = <<>> THEN base_path \o TXT ELSE base_path
    IN  IF ~exists(F, p) THEN p
        ELSE probe(F, splitext(p)[1], splitext(p)[2], 0)

\* a resolver that does not look at the disk
get_unique_output_filename_nocheck(F, base_path) ==
    IF splitext(base_path)[2] = <<>> THEN base_path \o TXT ELSE base_path

get_unique_output_filename(F, base_path) ==
    LET p == IF splitext(base_path)[2] = <<>> THEN base_path \o TXT ELSE base_path
    IN  IF ~exists(F, p) THEN p
        ELSE probe(F, splitext(p)[1], splitext(p)[2], 1)

\* ------------------------------------------------------------------------
\* Text written to the output stream, as chunks
\* ------------------------------------------------------------------------
NL == [t |-> "nl", v |-> <<>>]

SEP == [t |-> "sep", v |-> <<>>]

FileLine(h) == [t |-> "file", v |-> h]

ErrLine == [t |-> "err", v |-> <<>>]

Text(id) == [t |-> "text", v |-> id]

\* header_path of lines 77-79
header_path(input_dir, file_path) ==
    LET h == join(basename(input_dir), relpath(file_path, input_dir))
    IN  [k \in DOMAIN h |-> IF h[k] = "\\" THEN "/" ELSE h[k]]

\* the four writes of lines 81-84
banner(h) == << <<NL>>, <<SEP>>, <<FileLine(h)>>, <<SEP, NL>> >>

RECURSIVE concat(_)
concat(ss) == IF ss = <<>> THEN <<>> ELSE Head(ss) \o concat(Tail(ss))

\* ------------------------------------------------------------------------
\* The inputs the model draws from
\* ------------------------------------------------------------------------
D_p == <<"p">>

D_p_s == <<"p","/","s">>

D_p_bin == <<"p","/","b","i","n">>

D_e == <<"e">>

D_x == <<"x">>

F_a == <<"p","/","a",".","c","s">>

F_hidden == <<"e","/",".","e",".","j","s">>

F_readme == <<"p","/","r",".","m","d">>

F_M == <<"p","/","s","/","M",".","C","S">>

F_g == <<"p","/","b","i","n","/","g",".","c","s">>

\* the trees on disk before a run: p/ with a.cs, r.md, s/M.CS and bin/g.cs,
\* e/ with .e.js only
Tree(unreadable) ==
    LET f(path, id) == [NewFile(path, <<Text(id)>>) EXCEPT !.readable = path \notin unreadable]
    IN  << NewDir(D_p),
           f(F_a, <<"A">>),
           f(F_readme, <<"R">>),
           NewDir(D_p_s),
           f(F_M, <<"M">>),
           NewDir(D_p_bin),
           f(F_g, <<"G">>),
           NewDir(D_e),
           f(F_hidden, <<"H">>) >>

\* files a run may find unreadable
ReadCandidates == {F_a, F_M, F_g}

\* argv[1:-1]: a directory, a directory nested in it, a directory with an
\* ignored name, a directory without any selected file, and a path that is
\* not a directory
ArgChoices == {D_p, D_p_s, D_p_bin, D_e, D_x}

\* argv[-1]: the first two are used by whole runs (outside the input trees
\* without extension, inside an input tree with an allowed extension)
B_o == <<"o">>

B_p_o_js == <<"p","/","o",".","j","s">>

B_o_t == <<"o",".","t">>

B_dot_o == <<".","o">>

B_pd_o == <<"p",".","d","/","o">>

RunBases == {B_o, B_p_o_js}

ResolveBases == {B_o, B_p_o_js, B_o_t, B_dot_o, B_pd_o}

\* the names base, base_1, base_2, ... as they are on disk
OnDisk(b) ==
    CASE b = B_o      -> [stem |-> <<"o">>, ext |-> TXT]
      [] b = B_p_o_js -> [stem |-> <<"p","/","o">>, ext |-> <<".","j","s">>]
      [] b = B_o_t    -> [stem |-> <<"o">>, ext |-> <<".","t">>]
      [] b = B_dot_o  -> [stem |-> <<".","o">>, ext |-> TXT]
      [] b = B_pd_o   -> [stem |-> <<"p",".","d","/","o">>, ext |-> TXT]

Cand(b, n) ==
    IF n = 0 THEN OnDisk(b).stem \o OnDisk(b).ext
    ELSE OnDisk(b).stem \o <<"_">> \o str(n) \o OnDisk(b).ext

OLD == <<Text(<<"O">>)>>

\* earlier output files base, base_1, ... for the suffixes in taken
RECURSIVE Earlier(_, _, _)
Earlier(b, taken, n) ==
    IF n > MaxSuffix THEN <<>>
    ELSE (IF n \in taken THEN <<NewFile(Cand(b, n), OLD)>> ELSE <<>>)
         \o Earlier(b, taken, n + 1)

SeqsUpTo(S, n) == UNION {[1..k -> S] : k \in 1..n}

\* ------------------------------------------------------------------------
\* State
\* ------------------------------------------------------------------------
VARIABLES
    fs,                \* the filesystem
    fs0,               \* the filesystem when the current run started
    fs_first,          \* the filesystem when the first run started
    input_dirs,        \* sys.argv[1:-1]
    output_file_base,  \* sys.argv[-1]
    output_file,       \* resolved output path
    found_files,
    outbuf,            \* chunks written to outfile and not yet flushed
    pc,                \* position of the run
    i,                 \* index of input_dir in input_dirs
    stack,             \* directories os.walk has still to yield
    root,              \* directory os.walk yielded last
    files,             \* files of root still to process
    exit_code,
    faults,            \* I/O errors raised so far
    log,               \* files handled so far: <<index of input_dir, path>>
    run,               \* 1 for the first run, 2 for the second
    out1               \* the first run's output path, in the second run

vars == << fs, fs0, fs_first, input_dirs, output_file_base, output_file, found_files,
           outbuf, pc, i, stack, root, files, exit_code, faults, log, run, out1 >>

NONE == <<>>

InitRun ==
    /\ output_file = NONE
    /\ found_files = FALSE
    /\ outbuf = <<>>
    /\ i = 1
    /\ stack = <<>>
    /\ root = NONE
    /\ files = <<>>
    /\ exit_code = 0
    /\ faults = 0
    /\ log = <<>>
    /\ run = 1
    /\ out1 = NONE

\* a run of the tool: the trees, with no or one unreadable file, the first
\* name of the output free or already taken
Init ==
    /\ input_dirs \in SeqsUpTo(ArgChoices, MaxArgs)
    /\ output_file_base \in RunBases
    /\ \E unreadable \in {{}} \cup {{f} : f \in ReadCandidates}, taken \in {{}, {0}} :
          fs = Tree(unreadable) \o Earlier(output_file_base, taken, 0)
    /\ fs0 = fs
    /\ fs_first = fs
    /\ pc = "start"
    /\ InitRun

\* the resolver alone: any subset of base, base_1, .. taken
InitResolve ==
    /\ input_dirs = <<D_p>>
    /\ output_file_base \in ResolveBases
    /\ \E taken \in SUBSET (0..MaxSuffix) :
          fs = Tree({}) \o <<NewDir(<<"p",".","d">>)>> \o Earlier(output_file_base, taken, 0)
    /\ fs0 = fs
    /\ fs_first = fs
    /\ pc = "resolve"
    /\ InitRun

\* ------------------------------------------------------------------------
\* collect_cs_files, step by step
\* ------------------------------------------------------------------------
\* lines 97-99: the cleanup of the except block
except_cleanup(F, found, out) ==
    IF ~found /\ exists(F, out) THEN remove(F, out) ELSE F

\* an end of run that keeps the empty file
finalize_keep(F, found, out) == F

\* an end of run that removes the base name, not the resolved name
finalize_base(F, found, out) ==
    IF ~found
    THEN (IF exists(F, out) THEN remove(F, output_file_base \o TXT) ELSE F)
    ELSE F

\* lines 102-109: the end of a run that raised nothing
finalize(F, found, out) ==
    IF ~found
    THEN (IF exists(F, out) THEN remove(F, out) ELSE F)
    ELSE F

\* the file the loop of line 69 is at
file_path == join(root, Head(files))

at_selected_file ==
    /\ pc = "files"
    /\ files # <<>>
    /\ is_selected(Head(files))

\* lines 48-53: resolve the output path and open it for writing
OpenOutput ==
    /\ pc = "start"
    /\ output_file' = get_unique_output_filename(fs, output_file_base)
    /\ \E first \in BOOLEAN : fs' = open_w(fs, output_file', first)
    /\ found_files' = FALSE
    /\ i' = 1
    /\ pc' = "dirs"
    /\ UNCHANGED << fs0, fs_first, input_dirs, output_file_base, outbuf, stack, root, files,
                    exit_code, faults, log, run, out1 >>

\* line 53 raises: nothing was created, the except block exits with 1
OpenOutputFails ==
    /\ pc = "start"
    /\ faults < MaxFaults
    /\ output_file' = get_unique_output_filename(fs, output_file_base)
    /\ found_files' = FALSE
    /\ fs' = except_cleanup(fs, found_files', output_file')
    /\ exit_code' = 1
    /\ faults' = faults + 1
    /\ pc' = "done"
    /\ UNCHANGED << fs0, fs_first, input_dirs, output_file_base, outbuf, i, stack, root, files,
                    log, run, out1 >>

\* an invalid input path ends the loop of line 54 (break for continue)
SkipInvalidDir_break ==
    /\ pc = "dirs"
    /\ i <= Len(input_dirs)
    /\ ~isdir(fs, input_dirs[i])
    /\ i' = Len(input_dirs) + 1
    /\ UNCHANGED << fs, fs0, fs_first, input_dirs, output_file_base, output_file, found_files,
                    outbuf, pc, stack, root, files, exit_code, faults, log, run, out1 >>

\* lines 55-57: an input path that is not a directory is skipped
SkipInvalidDir ==
    /\ pc = "dirs"
    /\ i <= Len(input_dirs)
    /\ ~isdir(fs, input_dirs[i])
    /\ i' = i + 1
    /\ UNCHANGED << fs, fs0, fs_first, input_dirs, output_file_base, output_file, found_files,
                    outbuf, pc, stack, root, files, exit_code, faults, log, run, out1 >>

\* lines 59-60: os.walk starts at input_dir
EnterDir ==
    /\ pc = "dirs"
    /\ i <= Len(input_dirs)
    /\ isdir(fs, input_dirs[i])
    /\ stack' = << input_dirs[i] >>
    /\ pc' = "walk"
    /\ UNCHANGED << fs, fs0, fs_first, input_dirs, output_file_base, output_file, found_files,
                    outbuf, i, root, files, exit_code, faults, log, run, out1 >>

\* lines 60-66: os.walk yields the next directory, its sub-directories are
\* pruned in place and the remaining ones are walked next, depth first
WalkYield ==
    /\ pc = "walk"
    /\ stack # <<>>
    /\ LET top == Head(stack)
           dirs == prune_dirs(walk_dirs(fs, top))
       IN  /\ root' = top
           /\ files' = walk_files(fs, top)
           /\ stack' = [k \in DOMAIN dirs |-> join(top, dirs[k])] \o Tail(stack)
    /\ pc' = "files"
    /\ UNCHANGED << fs, fs0, fs_first, input_dirs, output_file_base, output_file, found_files,
                    outbuf, i, exit_code, faults, log, run, out1 >>

\* os.walk is exhausted: the loop of line 54 takes the next input_dir
WalkEnd ==
    /\ pc = "walk"
    /\ stack = <<>>
    /\ i' = i + 1
    /\ pc' = "dirs"
    /\ UNCHANGED << fs, fs0, fs_first, input_dirs, output_file_base, output_file, found_files,
                    outbuf, stack, root, files, exit_code, faults, log, run, out1 >>

\* the loop of line 69 is over for this directory
FilesEnd ==
    /\ pc = "files"
    /\ files = <<>>
    /\ pc' = "walk"
    /\ UNCHANGED << fs, fs0, fs_first, input_dirs, output_file_base, output_file, found_files,
                    outbuf, i, stack, root, files, exit_code, faults, log, run, out1 >>

\* lines 70-73: a masked file, or one without an allowed extension
SkipFile ==
    /\ pc = "files"
    /\ files # <<>>
    /\ ~is_selected(Head(files))
    /\ files' = Tail(files)
    /\ UNCHANGED << fs, fs0, fs_first, input_dirs, output_file_base, output_file, found_files,
                    outbuf, pc, i, stack, root, exit_code, faults, log, run, out1 >>

\* lines 74-91: banner, content, newline, flush
WriteFile ==
    /\ at_selected_file
    /\ entry(fs, file_path).readable
    /\ found_files' = TRUE
    /\ LET h == header_path(input_dirs[i], file_path)
           written == outbuf \o concat(banner(h)) \o entry(fs, file_path).content \o <<NL>>
       IN  /\ fs' = write_through(fs, output_file, written)
           /\ outbuf' = <<>>
    /\ log' = Append(log, <<i, file_path>>)
    /\ files' = Tail(files)
    /\ UNCHANGED << fs0, fs_first, input_dirs, output_file_base, output_file, pc, i, stack, root,
                    exit_code, faults, run, out1 >>

\* a read error that is not caught at line 93 and ends the run
WriteFileReadError_fatal ==
    /\ at_selected_file
    /\ ~entry(fs, file_path).readable
    /\ found_files' = TRUE
    /\ LET h == header_path(input_dirs[i], file_path)
       IN  fs' = write_through(fs, output_file, outbuf \o concat(banner(h)))
    /\ outbuf' = <<>>
    /\ exit_code' = 1
    /\ pc' = "done"
    /\ UNCHANGED << fs0, fs_first, input_dirs, output_file_base, output_file, i, stack,
                    root, files, faults, log, run, out1 >>

\* lines 74-87, 93-94: the read raises, the error comment is written
WriteFileReadError ==
    /\ at_selected_file
    /\ ~entry(fs, file_path).readable
    /\ found_files' = TRUE
    /\ LET h == header_path(input_dirs[i], file_path)
       IN  outbuf' = outbuf \o concat(banner(h)) \o <<ErrLine>>
    /\ log' = Append(log, <<i, file_path>>)
    /\ files' = Tail(files)
    /\ UNCHANGED << fs, fs0, fs_first, input_dirs, output_file_base, output_file, pc, i, stack,
                    root, exit_code, faults, run, out1 >>

\* lines 74-91, 93-94: the flush of line 91 raises; the inner except block
\* takes it for a read error, the buffer keeps what was written
FlushFails ==
    /\ at_selected_file
    /\ entry(fs, file_path).readable
    /\ faults < MaxFaults
    /\ found_files' = TRUE
    /\ LET h == header_path(input_dirs[i], file_path)
       IN  outbuf' = outbuf \o concat(banner(h)) \o entry(fs, file_path).content
                       \o <<NL, ErrLine>>
    /\ log' = Append(log, <<i, file_path>>)
    /\ files' = Tail(files)
    /\ faults' = faults + 1
    /\ UNCHANGED << fs, fs0, fs_first, input_dirs, output_file_base, output_file, pc, i, stack,
                    root, exit_code, run, out1 >>

\* lines 74-84, 95-100: one of the writes of the banner raises after done of
\* them went through; the with block closes the file, which may or may not
\* get the buffer to disk; the except block exits with 1
BannerWriteFails ==
    /\ at_selected_file
    /\ faults < MaxFaults
    /\ found_files' = TRUE
    /\ \E done \in 0..3, flushed \in BOOLEAN :
          LET h == header_path(input_dirs[i], file_path)
              written == outbuf \o concat(SubSeq(banner(h), 1, done))
              closed == IF flushed THEN write_through(fs, output_file, written) ELSE fs
          IN  fs' = except_cleanup(closed, found_files', output_file)
    /\ outbuf' = <<>>
    /\ exit_code' = 1
    /\ faults' = faults + 1
    /\ pc' = "done"
    /\ UNCHANGED << fs0, fs_first, input_dirs, output_file_base, output_file, i, stack, root,
                    files, log, run, out1 >>

\* lines 53-54, 102-109: the loop of line 54 is over, the with block closes
\* the file (flushing the buffer), the run ends
Finish ==
    /\ pc = "dirs"
    /\ i > Len(input_dirs)
    /\ fs' = finalize(write_through(fs, output_file, outbuf), found_files, output_file)
    /\ outbuf' = <<>>
    /\ pc' = "done"
    /\ UNCHANGED << fs0, fs_first, input_dirs, output_file_base, output_file, found_files, i,
                    stack, root, files, exit_code, faults, log, run, out1 >>

\* lines 53-54, 95-100: the flush of the close raises, the buffer is lost
CloseFails ==
    /\ pc = "dirs"
    /\ i > Len(input_dirs)
    /\ faults < MaxFaults
    /\ fs' = except_cleanup(fs, found_files, output_file)
    /\ outbuf' = <<>>
    /\ exit_code' = 1
    /\ faults' = faults + 1
    /\ pc' = "done"
    /\ UNCHANGED << fs0, fs_first, input_dirs, output_file_base, output_file, found_files, i,
                    stack, root, files, log, run, out1 >>

\* the tool is run again with the same arguments
Rerun ==
    /\ pc = "done"
    /\ run = 1
    /\ run' = 2
    /\ out1' = output_file
    /\ fs0' = fs
    /\ pc' = "start"
    /\ output_file' = NONE
    /\ found_files' = FALSE
    /\ i' = 1
    /\ stack' = <<>>
    /\ root' = NONE
    /\ files' = <<>>
    /\ log' = <<>>
    /\ UNCHANGED << fs, fs_first, input_dirs, output_file_base, outbuf, exit_code, faults >>

\* get_unique_output_filename called on its own
Resolve ==
    /\ pc = "resolve"
    /\ output_file' = get_unique_output_filename(fs, output_file_base)
    /\ pc' = "resolved"
    /\ UNCHANGED << fs, fs0, fs_first, input_dirs, output_file_base, found_files, outbuf, i,
                    stack, root, files, exit_code, faults, log, run, out1 >>

\* ------------------------------------------------------------------------
\* Specifications
\* ------------------------------------------------------------------------
Next ==
    \/ OpenOutput
    \/ OpenOutputFails
    \/ SkipInvalidDir
    \/ EnterDir
    \/ WalkYield
    \/ WalkEnd
    \/ FilesEnd
    \/ SkipFile
    \/ WriteFile
    \/ WriteFileReadError
    \/ FlushFails
    \/ BannerWriteFails
    \/ Finish
    \/ CloseFails

\* one run, with I/O errors
Spec == Init /\ [][Next]_vars

NextTwice ==
    \/ OpenOutput
    \/ SkipInvalidDir
    \/ EnterDir
    \/ WalkYield
    \/ WalkEnd
    \/ FilesEnd
    \/ SkipFile
    \/ WriteFile
    \/ WriteFileReadError
    \/ Finish
    \/ Rerun

\* two runs in sequence with the same arguments, no I/O error
SpecTwice == Init /\ [][NextTwice]_vars

NextResolve == Resolve

\* the resolver on any base path and any set of names already taken
SpecResolve == InitResolve /\ [][NextResolve]_vars

\* ------------------------------------------------------------------------
\* Vocabulary of the properties
\* ------------------------------------------------------------------------
Range(q) == {q[k] : k \in DOMAIN q}

\* the text of the output file on disk
OnDiskText == IF exists(fs, output_file) THEN entry(fs, output_file).content ELSE <<>>

\* everything written to the output stream so far
Written == OnDiskText \o outbuf

\* path f lies below directory d
is_below(f, d) == Len(f) > Len(d) + 1 /\ SubSeq(f, 1, Len(d) + 1) = d \o <<"/">>

RECURSIVE components(_)
components(p) ==
    IF p = <<>> THEN <<>>
    ELSE IF \E k \in DOMAIN p : p[k] = "/"
         THEN LET k == CHOOSE k \in DOMAIN p : p[k] = "/" /\ \A m \in 1..(k - 1) : p[m] # "/"
              IN  <<SubSeq(p, 1, k - 1)>> \o components(SubSeq(p, k + 1, Len(p)))
    ELSE <<p>>

\* ------------------------------------------------------------------------
\* C1
\* ------------------------------------------------------------------------
\* C1: get_unique_output_filename returns the first path that does not exist
\* in the sequence p, p_1, p_2, ... (p = base path, with .txt appended only
\* when it has no extension), and never a path that exists.
C1_FirstFreeName ==
    pc = "resolved" =>
        /\ ~exists(fs, output_file)
        /\ \E n \in 0..(MaxSuffix + 1) :
              /\ output_file = Cand(output_file_base, n)
              /\ \A m \in 0..(n - 1) : exists(fs, Cand(output_file_base, m))

\* p and p_1 are taken, p_2 is free and returned although p_3 is taken
C1_Witness ==
    /\ pc = "resolved"
    /\ exists(fs, Cand(output_file_base, 0))
    /\ exists(fs, Cand(output_file_base, 1))
    /\ exists(fs, Cand(output_file_base, 3))
    /\ output_file = Cand(output_file_base, 2)
    /\ output_file_base = B_dot_o

\* ------------------------------------------------------------------------
\* C2
\* ------------------------------------------------------------------------
\* C2: at every point of a run, on every exit path, every file that existed
\* before the run still exists with unchanged content, and the only path
\* that exists now and did not before is the resolved output path.
C2_OnlyOutputPathTouched ==
    /\ \A k \in DOMAIN fs0 :
          /\ exists(fs, fs0[k].path)
          /\ entry(fs, fs0[k].path) = fs0[k]
    /\ \A k \in DOMAIN fs :
          ~exists(fs0, fs[k].path) => fs[k].path = output_file

\* o.txt existed before the run, the run wrote o_1.txt and ended
C2_Witness ==
    /\ pc = "done"
    /\ output_file_base = B_o
    /\ exists(fs0, Cand(B_o, 0))
    /\ output_file = Cand(B_o, 1)
    /\ exists(fs, output_file)
    /\ OnDiskText # <<>>

\* ------------------------------------------------------------------------
\* C3
\* ------------------------------------------------------------------------
\* the file name passes the filters, in the words of the specification
Eligible(name) ==
    /\ ~matches_any_mask(name, IGNORED_FILE_MASKS)
    /\ \E k \in DOMAIN FILE_EXTENSIONS : endswith(lower(name), FILE_EXTENSIONS[k])

\* some directory on the path of f has an ignored name
UnderIgnoredDir(f) ==
    \E c \in Range(components(dirname(f))) : matches_any_mask(c, IGNORED_DIR_MASKS)

\* some directory strictly below d on the path of f has an ignored name
IgnoredBelow(d, f) ==
    \E c \in Range(components(relpath(dirname(f), d))) :
        matches_any_mask(c, IGNORED_DIR_MASKS)

HasBanner(d, f) == FileLine(header_path(d, f)) \in Range(Written)

\* C3 as stated: no file under a directory with an ignored name is written,
\* also when that directory is itself an input directory.
C3_Original ==
    \A n \in DOMAIN input_dirs, k \in DOMAIN fs0 :
        ( /\ fs0[k].kind = "file"
          /\ is_below(fs0[k].path, input_dirs[n])
          /\ UnderIgnoredDir(fs0[k].path) )
        => /\ <<n, fs0[k].path>> \notin Range(log)
           /\ ~HasBanner(input_dirs[n], fs0[k].path)

\* C3 (amended): the walk of an input directory writes no banner and no
\* content for a file that has a directory with an ignored name strictly
\* below that input directory on its path.
C3_PrunedBelowInputDir ==
    \A n \in DOMAIN input_dirs, k \in DOMAIN fs0 :
        ( /\ fs0[k].kind = "file"
          /\ is_below(fs0[k].path, input_dirs[n])
          /\ IgnoredBelow(input_dirs[n], fs0[k].path) )
        => /\ <<n, fs0[k].path>> \notin Range(log)
           /\ ~HasBanner(input_dirs[n], fs0[k].path)

\* p and p/bin are both input directories: the walk of p has skipped
\* p/bin/g.cs, the walk of p/bin has written it
C3_Witness ==
    /\ pc = "done"
    /\ exit_code = 0
    /\ input_dirs = <<D_p, D_p_bin>>
    /\ HasBanner(D_p, F_a)
    /\ ~HasBanner(D_p, F_g)
    /\ HasBanner(D_p_bin, F_g)

\* ------------------------------------------------------------------------
\* C4
\* ------------------------------------------------------------------------
\* the walk of input directory d gets to file f
Reaches(d, f) == isdir(fs0, d) /\ is_below(f, d) /\ ~IgnoredBelow(d, f)

EntriesReaching(f) == {n \in DOMAIN input_dirs : Reaches(input_dirs[n], f)}

Headers(f) == {header_path(input_dirs[n], f) : n \in EntriesReaching(f)}

BannerLines(f) ==
    {k \in DOMAIN OnDiskText : OnDiskText[k].t = "file" /\ OnDiskText[k].v \in Headers(f)}

\* every banner of f in the output is whole and followed by the text of f
FollowedByContent(f) ==
    \A k \in BannerLines(f) :
        /\ k > 2
        /\ k + 3 + Len(entry(fs0, f).content) <= Len(OnDiskText)
        /\ SubSeq(OnDiskText, k - 2, k + 2) = concat(banner(OnDiskText[k].v))
        /\ SubSeq(OnDiskText, k + 3, k + 3 + Len(entry(fs0, f).content))
             = entry(fs0, f).content \o <<NL>>

\* the readable files of the input trees that pass the filters
EligibleFiles ==
    {fs0[k].path : k \in {m \in DOMAIN fs0 :
        /\ fs0[m].kind = "file"
        /\ fs0[m].readable
        /\ Eligible(basename(fs0[m].path))
        /\ EntriesReaching(fs0[m].path) # {} }}

\* the output file is itself in a walked directory and passes the filters
SelfIncluded ==
    /\ Eligible(basename(output_file))
    /\ \E n \in DOMAIN input_dirs : Reaches(input_dirs[n], output_file)

\* C4 as stated: exactly one banner per eligible file in the finished
\* output, whatever the list of input directories (stated here for the runs
\* whose output file is not picked up by the walk).
C4_Original ==
    (pc = "done" /\ exit_code = 0 /\ ~SelfIncluded) =>
        \A f \in EligibleFiles :
            /\ Cardinality(BannerLines(f)) = 1
            /\ FollowedByContent(f)

\* C4 (amended): the finished output has, for every eligible file, one
\* banner followed by the file's content per entry of the input list whose
\* walk reaches the file, provided the output file is not itself picked up by
\* the walk.
C4_OneBannerPerEntry ==
    (pc = "done" /\ exit_code = 0 /\ ~SelfIncluded) =>
        \A f \in EligibleFiles :
            /\ Cardinality(BannerLines(f)) = Cardinality(EntriesReaching(f))
            /\ FollowedByContent(f)

\* p/s/M.CS is reached from p and from p/s: two banners
C4_Witness ==
    /\ pc = "done"
    /\ exit_code = 0
    /\ ~SelfIncluded
    /\ input_dirs = <<D_p, D_p_s>>
    /\ F_M \in EligibleFiles
    /\ Cardinality(BannerLines(F_M)) = 2
    /\ FollowedByContent(F_M)

\* ------------------------------------------------------------------------
\* C5
\* ------------------------------------------------------------------------
\* the files a walk can come across: those of before the run and the output
FilesAtWalk ==
    {fs0[k].path : k \in {m \in DOMAIN fs0 : fs0[m].kind = "file"}} \cup {output_file}

\* some file of some input directory passes the filters
AnyEligible ==
    \E f \in FilesAtWalk :
        /\ Eligible(basename(f))
        /\ \E n \in DOMAIN input_dirs : Reaches(input_dirs[n], f)

\* C5: a run that raised nothing ends with exit code 0; after a run that
\* ended with exit code 0 the output file exists exactly when some file of
\* the input directories passed the filters.
C5_OutputKeptIffFound ==
    /\ (pc = "done" /\ faults = 0) => exit_code = 0
    /\ (pc = "done" /\ exit_code = 0) => (exists(fs, output_file) <=> AnyEligible)

\* the input directory e is walked, it has no eligible file: no output left
C5_Witness ==
    /\ pc = "done"
    /\ exit_code = 0
    /\ input_dirs = <<D_e>>
    /\ ~AnyEligible
    /\ ~exists(fs, output_file)

\* ------------------------------------------------------------------------
\* C6
\* ------------------------------------------------------------------------
\* C6: after an error exit no empty output file is left on disk.
C6_NoEmptyOutputAfterError ==
    (pc = "done" /\ exit_code = 1) =>
        ~(exists(fs, output_file) /\ entry(fs, output_file).content = <<>>)

\* ------------------------------------------------------------------------
\* C7
\* ------------------------------------------------------------------------
\* position k of the written text starts with the chunks of q
StartsAt(k, q) ==
    /\ k + Len(q) - 1 <= Len(Written)
    /\ SubSeq(Written, k, k + Len(q) - 1) = q

Contains(q) == \E k \in DOMAIN Written : StartsAt(k, q)

\* what a file's entry in the output is: banner and content, or banner and
\* error comment
NormalEntry(d, f) ==
    concat(banner(header_path(d, f))) \o entry(fs0, f).content \o <<NL>>

ErrorEntry(d, f) == concat(banner(header_path(d, f))) \o <<ErrLine>>

\* C7: in a run without any other I/O error, an eligible file whose read
\* fails gets its banner followed by the error comment, every eligible file
\* of every input directory is handled (the readable ones with banner and
\* content), and the run ends with exit code 0 and keeps its output.
C7_ReadErrorIsLocal ==
    (pc = "done" /\ faults = 0) =>
        /\ exit_code = 0
        /\ \A n \in DOMAIN input_dirs, k \in DOMAIN fs0 :
              LET d == input_dirs[n]
                  f == fs0[k].path
              IN  (fs0[k].kind = "file" /\ Eligible(basename(f)) /\ Reaches(d, f)) =>
                      /\ <<n, f>> \in Range(log)
                      /\ exists(fs, output_file)
                      /\ IF fs0[k].readable
                         THEN Contains(NormalEntry(d, f))
                         ELSE Contains(ErrorEntry(d, f)) /\ ~Contains(NormalEntry(d, f))

\* p/a.cs could not be read, p/s/M.CS was enumerated after it and written
C7_Witness ==
    /\ pc = "done"
    /\ exit_code = 0
    /\ input_dirs = <<D_p>>
    /\ ~entry(fs0, F_a).readable
    /\ log = << <<1, F_a>>, <<1, F_M>> >>
    /\ Contains(ErrorEntry(D_p, F_a) \o NormalEntry(D_p, F_M))

\* ------------------------------------------------------------------------
\* C8
\* ------------------------------------------------------------------------
\* the header lines of the written text, in order
HeaderLines == SelectSeq(Written, LAMBDA c : c.t = "file")

\* C8: in a run without I/O error only valid input directories are walked,
\* in argument order, and each of them wholly, wherever the invalid paths
\* are in the list; the banners are in the output in that order; when every
\* input path is invalid the output file is removed and the exit code is 0.
C8_InvalidDirSkipped ==
    (pc = "done" /\ faults = 0) =>
        /\ exit_code = 0
        /\ \A k \in DOMAIN log : isdir(fs0, input_dirs[log[k][1]])
        /\ \A k, m \in DOMAIN log : k <= m => log[k][1] <= log[m][1]
        /\ \A n \in DOMAIN input_dirs, f \in FilesAtWalk :
              (Eligible(basename(f)) /\ Reaches(input_dirs[n], f)) =>
                  <<n, f>> \in Range(log) /\ HasBanner(input_dirs[n], f)
        /\ ~SelfIncluded =>
              HeaderLines = [k \in DOMAIN log |->
                                FileLine(header_path(input_dirs[log[k][1]], log[k][2]))]
        /\ (\A n \in DOMAIN input_dirs : ~isdir(fs0, input_dirs[n])) =>
              ~exists(fs, output_file)

\* x is not a directory and comes first, p/s is walked after it
C8_Witness ==
    /\ pc = "done"
    /\ exit_code = 0
    /\ input_dirs = <<D_x, D_p_s>>
    /\ log = << <<2, F_M>> >>
    /\ HasBanner(D_p_s, F_M)

\* ------------------------------------------------------------------------
\* C9
\* ------------------------------------------------------------------------
\* directory d and everything below it
SubTree(F, d) == SelectSeq(F, LAMBDA e : e.path = d \/ is_below(e.path, d))

\* the second run starts on the input directories the first run started on
InputsUnchanged ==
    \A n \in DOMAIN input_dirs :
        SubTree(fs0, input_dirs[n]) = SubTree(fs_first, input_dirs[n])

\* C9: after two runs in sequence with the same input directories, the same
\* in both runs, and the same output base, the second run has left an
\* output file exactly when the first has, under the next name in
\* p, p_1, p_2, ... that was free, and with the same text.
C9_SecondRunSameText ==
    (run = 2 /\ pc = "done" /\ InputsUnchanged) =>
        /\ exists(fs, out1) <=> exists(fs, output_file)
        /\ exists(fs, output_file) =>
              /\ output_file # out1
              /\ entry(fs, output_file).content = entry(fs, out1).content
              /\ \E a, b \in 0..(MaxSuffix + 2) :
                    /\ a < b
                    /\ out1 = Cand(output_file_base, a)
                    /\ output_file = Cand(output_file_base, b)
                    /\ \A m \in 0..(b - 1) : exists(fs, Cand(output_file_base, m))

\* o.txt existed; the first run wrote o_1.txt, the second o_2.txt, with the
\* same two entries
C9_Witness ==
    /\ run = 2
    /\ pc = "done"
    /\ InputsUnchanged
    /\ input_dirs = <<D_p, D_x>>
    /\ out1 = Cand(B_o, 1)
    /\ output_file = Cand(B_o, 2)
    /\ exists(fs, out1)
    /\ exists(fs, output_file)
    /\ Len(log) = 2
    /\ entry(fs, output_file).content = entry(fs, out1).content

\* ------------------------------------------------------------------------
\* C10
\* ------------------------------------------------------------------------
\* C10: between two files, and when the walk is over, nothing that was
\* written to the output stream is still unflushed.
C10_FlushedAfterEachFile ==
    (faults = 0 /\ pc \in {"files", "walk", "dirs"}) => outbuf = <<>>

====
